---------------------------- MODULE Spec2Model ----------------------------
(***************************************************************************)
(* decom-eta: a model of src/main.go.                                      *)
(*                                                                         *)
(* main parses its flags, loads the alias, builds the admin client, issues *)
(* one ListPoolsStatus query and walks the returned pools, printing for    *)
(* each draining pool a block of lines; formatDuration renders the         *)
(* remaining time of the ETA line.                                         *)
(*                                                                         *)
(* Time is counted in ticks of one millisecond (Second = 1000 ticks).      *)
(* float64 quotients are modelled by exact rational arithmetic on the      *)
(* integer operands; a float64 -> integer conversion truncates toward 0.   *)
(* Every printed line is a record that keeps the operands of the quotient  *)
(* it shows (num / den) instead of the humanized text, and a field "pool": *)
(* the index of the loop iteration that printed it (0 after the loop).     *)
(***************************************************************************)
EXTENDS Integers, Sequences, FiniteSets, TLC

VARIABLES pc, args, pools, idx, hasDraining, out, exitCode, fmtIn, fmtOut

vars == <<pc, args, pools, idx, hasDraining, out, exitCode, fmtIn, fmtOut>>

(* ------------------------------ bounds -------------------------------- *)

\* The longest pool list a status query returns in the model.
MaxPools == 2

\* formatDuration is exercised on durations of up to MaxDays days (and a bit).
MaxDays == 2

(* ------------------------- units and the clock ------------------------ *)

\* time.Second, in ticks.
Second == 1000

\* The wall clock reading of the run (time.Now / time.Since), in ticks.
Now == 200000

\* The zero time.Time: StartTime.IsZero() holds of it and of nothing else.
ZeroTime == 0

(* ------------------------------ inputs -------------------------------- *)

\* pool.Decommission == nil
Nil == [nil |-> TRUE]

CmdLines == {"http://minio1/data/disk{1...4}"}

\* Byte counters a pool may report, the expected ones and the garbage ones.
SizeVals == {-10, 0, 20, 99, 100, 150}

\* Start times: never started, in the future, now, 10s ago sharp, just over
\* 10s ago, 11s, 60s and 90s ago.
StartTimes == {ZeroTime, Now + 5 * Second, Now, Now - 10 * Second,
               Now - 10 * Second - 1, Now - 11 * Second, Now - 60 * Second,
               Now - 90 * Second}

\* madmin.PoolDecommissionInfo, every combination of the fields main reads.
RichInfos ==
    [StartTime : StartTimes, TotalSize : SizeVals, StartSize : SizeVals,
     CurrentSize : SizeVals, Complete : BOOLEAN, Failed : BOOLEAN,
     Canceled : BOOLEAN]

\* The infos of the multi-pool lists: one capacity, fewer combinations.
CoarseInfos ==
    [StartTime : {ZeroTime, Now - 5 * Second, Now - 90 * Second},
     TotalSize : {100}, StartSize : {0}, CurrentSize : {0, 20, 150},
     Complete : BOOLEAN, Failed : {FALSE}, Canceled : {FALSE}]

IdAssignments(n) ==
    {f \in [1..n -> 0..(n - 1)] : \A i, j \in 1..n : f[i] = f[j] => i = j}

\* madmin.PoolStatus lists of length n over the infos ds (or nil), the pool
\* IDs unique and zero-based.
PoolLists(n, ds) ==
    {[i \in 1..n |-> [ID |-> ids[i], CmdLine |-> c, Decommission |-> d[i]]] :
        ids \in IdAssignments(n), c \in CmdLines, d \in [1..n -> ds \cup {Nil}]}

\* What ListPoolsStatus may return, by length: any list of up to MaxPools
\* pools over the coarse infos, and any single pool over the rich ones.
Responses(n) ==
    PoolLists(n, CoarseInfos)
        \cup (IF n = 1 THEN PoolLists(1, RichInfos) ELSE {})

\* The command lines: -watch given or not, zero to two positional arguments.
ArgSets == [watch : BOOLEAN, nargs : 0..2]

(* --------------------------- formatDuration --------------------------- *)

\* int(f) for a float64 quotient n/d with d > 0: truncation toward zero.
Trunc(n, d) == IF n >= 0 THEN n \div d ELSE -((-n) \div d)

\* Go's %: the remainder has the sign of the dividend.
Rem(n, d) == n - d * Trunc(n, d)

\* strings.Join(parts, " ")
RECURSIVE Join(_)
Join(parts) ==
    IF Len(parts) = 0 THEN ""
    ELSE IF Len(parts) = 1 THEN parts[1]
    ELSE parts[1] \o " " \o Join(Tail(parts))

FmtDays(d) == Trunc(Trunc(d, 3600 * Second), 24)

FmtHours(d) == Rem(Trunc(d, 3600 * Second), 24)

FmtMins(d) == Rem(Trunc(d, 60 * Second), 60)

\* A slip: the minutes are printed even when they are zero, once the duration
\* has days or hours to print.
formatDurationKeepsZeroMins(d) ==
    LET days == FmtDays(d)
        hours == FmtHours(d)
        mins == FmtMins(d)
        parts == (IF days > 0 THEN <<ToString(days) \o "d">> ELSE <<>>)
                 \o (IF hours > 0 THEN <<ToString(hours) \o "h">> ELSE <<>>)
        all == IF Len(parts) > 0 \/ mins > 0
               THEN parts \o <<ToString(mins) \o "m">> ELSE parts
    IN  IF Len(all) = 0 THEN "< 1m" ELSE Join(all)

formatDuration(d) ==
    LET days == FmtDays(d)
        hours == FmtHours(d)
        mins == FmtMins(d)
        parts == (IF days > 0 THEN <<ToString(days) \o "d">> ELSE <<>>)
                 \o (IF hours > 0 THEN <<ToString(hours) \o "h">> ELSE <<>>)
                 \o (IF mins > 0 THEN <<ToString(mins) \o "m">> ELSE <<>>)
    IN  IF Len(parts) = 0 THEN "< 1m" ELSE Join(parts)

(* ------------------------------ main ---------------------------------- *)

Line(i, k, at, n, d, v, t) ==
    [pool |-> i, kind |-> k, at |-> at, num |-> n, den |-> d, val |-> v,
     text |-> t]

\* A slip: the Canceled flag is not looked at.
SkippedIgnoresCanceled(d) ==
    \/ d = Nil
    \/ d.StartTime = ZeroTime
    \/ d.Complete \/ d.Failed

\* d == nil || d.StartTime.IsZero(), then d.Complete || d.Failed || d.Canceled
Skipped(d) ==
    \/ d = Nil
    \/ d.StartTime = ZeroTime
    \/ d.Complete \/ d.Failed \/ d.Canceled

\* A slip: >= 10 for > 10.
HasSignalFromTenSeconds(bytesFreed, initialUsed, elapsed) ==
    bytesFreed > 0 /\ initialUsed > 0 /\ elapsed >= 10 * Second

\* bytesFreed > 0 && initialUsed > 0 && elapsed.Seconds() > 10
HasSignal(bytesFreed, initialUsed, elapsed) ==
    bytesFreed > 0 /\ initialUsed > 0 /\ elapsed > 10 * Second

\* A slip: <= 1.0 for < 1.0.
HasETAUpToOne(bytesFreed, initialUsed) ==
    bytesFreed * initialUsed > 0
        /\ (IF initialUsed > 0 THEN bytesFreed <= initialUsed
                               ELSE bytesFreed >= initialUsed)

\* progress > 0 && progress < 1.0, progress = bytesFreed / initialUsed
HasETA(bytesFreed, initialUsed) ==
    bytesFreed * initialUsed > 0
        /\ (IF initialUsed > 0 THEN bytesFreed < initialUsed
                               ELSE bytesFreed > initialUsed)

\* time.Duration(elapsed.Seconds()/progress - elapsed.Seconds()) * time.Second:
\* the float64 is cut to whole seconds before it is scaled. (The int64
\* overflow of the scaling, past some 292 years, is outside the model.)
EtaDuration(bytesFreed, initialUsed, elapsed) ==
    Trunc(elapsed * (initialUsed - bytesFreed), bytesFreed * Second) * Second

\* A slip: the usage line is printed ahead of the progress line.
ProgressLinesUsageFirst(i, d, bytesFreed, initialUsed, usedNow, elapsed) ==
    << Line(i, "Usage", 0, usedNow, d.TotalSize, 0, ""),
       Line(i, "Progress", 0, bytesFreed, initialUsed, 0, ""),
       Line(i, "Speed", 0, bytesFreed * Second, elapsed, 0, "") >>

\* The three Printf of the progress branch: progress = bytesFreed/initialUsed,
\* 100*usedNow/TotalSize, speed = bytesFreed/elapsed.Seconds().
ProgressLines(i, d, bytesFreed, initialUsed, usedNow, elapsed) ==
    << Line(i, "Progress", 0, bytesFreed, initialUsed, 0, ""),
       Line(i, "Usage", 0, usedNow, d.TotalSize, 0, ""),
       Line(i, "Speed", 0, bytesFreed * Second, elapsed, 0, "") >>

\* The lines one iteration of the loop prints for pool number i of the list.
PoolLines(i, pool) ==
    LET d == pool.Decommission
        initialUsed == d.TotalSize - d.StartSize
        bytesFreed == d.CurrentSize - d.StartSize
        usedNow == d.TotalSize - d.CurrentSize
        elapsed == Now - d.StartTime
        etaDuration == EtaDuration(bytesFreed, initialUsed, elapsed)
        head == << Line(i, "Header", 0, 0, 1, pool.ID + 1, pool.CmdLine),
                   Line(i, "Started", d.StartTime, 0, 1, elapsed, "") >>
        eta ==
            IF HasETA(bytesFreed, initialUsed)
            THEN << Line(i, "ETA", Now + etaDuration, bytesFreed, initialUsed,
                         etaDuration, formatDuration(etaDuration)) >>
            ELSE << >>
        body ==
            IF HasSignal(bytesFreed, initialUsed, elapsed)
            THEN ProgressLines(i, d, bytesFreed, initialUsed, usedNow, elapsed)
                     \o eta
            ELSE << Line(i, "Starting", 0, 0, 1, 0, "") >>
    IN  head \o body \o << Line(i, "Blank", 0, 0, 1, 0, "") >>

NoPoolsLine == Line(0, "NoPools", 0, 0, 1, 0, "")

\* flag.Parse(): -watch is not a defined flag, so the flag package reports
\* it, prints the usage and exits with status 2; then the NArg check.
ParseFlags ==
    /\ pc = "parse"
    /\ IF args.watch
       THEN pc' = "exit" /\ exitCode' = 2
       ELSE IF args.nargs # 1
       THEN pc' = "exit" /\ exitCode' = 1
       ELSE pc' = "loadAlias" /\ UNCHANGED exitCode
    /\ UNCHANGED <<args, pools, idx, hasDraining, out, fmtIn, fmtOut>>

\* loadAlias(alias, *configDir): the alias is found, or the run ends.
LoadAlias ==
    /\ pc = "loadAlias"
    /\ \E ok \in BOOLEAN :
         IF ok THEN pc' = "newClient" /\ UNCHANGED exitCode
               ELSE pc' = "exit" /\ exitCode' = 1
    /\ UNCHANGED <<args, pools, idx, hasDraining, out, fmtIn, fmtOut>>

\* newAdminClient(ac)
NewAdminClient ==
    /\ pc = "newClient"
    /\ \E ok \in BOOLEAN :
         IF ok THEN pc' = "list" /\ UNCHANGED exitCode
               ELSE pc' = "exit" /\ exitCode' = 1
    /\ UNCHANGED <<args, pools, idx, hasDraining, out, fmtIn, fmtOut>>

\* client.ListPoolsStatus(ctx): the one status query of the run.
ListPoolsStatus ==
    /\ pc = "list"
    /\ \/ /\ \E n \in 0..MaxPools : \E r \in Responses(n) : pools' = r
          /\ pc' = "loop"
          /\ hasDraining' = FALSE
          /\ UNCHANGED exitCode
       \/ /\ pc' = "exit"
          /\ exitCode' = 1
          /\ UNCHANGED <<pools, hasDraining>>
    /\ UNCHANGED <<args, idx, out, fmtIn, fmtOut>>

\* One iteration of "for _, pool := range pools".
LoopBody ==
    /\ pc = "loop"
    /\ idx < Len(pools)
    /\ idx' = idx + 1
    /\ IF Skipped(pools[idx + 1].Decommission)
       THEN UNCHANGED <<hasDraining, out>>
       ELSE /\ hasDraining' = TRUE
            /\ out' = out \o PoolLines(idx + 1, pools[idx + 1])
    /\ UNCHANGED <<pc, args, pools, exitCode, fmtIn, fmtOut>>

\* A slip: the negation of hasDraining is lost.
AfterLoopInverted ==
    /\ pc = "loop"
    /\ idx = Len(pools)
    /\ out' = IF hasDraining THEN Append(out, NoPoolsLine) ELSE out
    /\ pc' = "done"
    /\ UNCHANGED <<args, pools, idx, hasDraining, exitCode, fmtIn, fmtOut>>

\* if !hasDraining { Println("No pools ...") }, and main returns.
AfterLoop ==
    /\ pc = "loop"
    /\ idx = Len(pools)
    /\ out' = IF ~hasDraining THEN Append(out, NoPoolsLine) ELSE out
    /\ pc' = "done"
    /\ UNCHANGED <<args, pools, idx, hasDraining, exitCode, fmtIn, fmtOut>>

Init ==
    /\ pc = "parse"
    /\ args \in ArgSets
    /\ pools = << >>
    /\ idx = 0
    /\ hasDraining = FALSE
    /\ out = << >>
    /\ exitCode = 0
    /\ fmtIn = 0
    /\ fmtOut = ""

Next ==
    \/ ParseFlags
    \/ LoadAlias
    \/ NewAdminClient
    \/ ListPoolsStatus
    \/ LoopBody
    \/ AfterLoop

Spec == Init /\ [][Next]_vars

(* ------------------- formatDuration on its own ------------------------ *)

\* Whole-second durations of up to MaxDays days, 23 hours, 59 minutes, 59 s,
\* and the same plus 999 ms.
Durations ==
    {(((dd * 24 + hh) * 60 + mm) * 60 + ss) * Second + ms :
        dd \in 0..MaxDays, hh \in {0, 1, 2, 23}, mm \in {0, 1, 5, 59},
        ss \in {0, 1, 59}, ms \in {0, 999}}

FmtInit ==
    /\ pc = "fmt"
    /\ fmtIn \in Durations
    /\ fmtOut = ""
    /\ args = [watch |-> FALSE, nargs |-> 1]
    /\ pools = << >>
    /\ idx = 0
    /\ hasDraining = FALSE
    /\ out = << >>
    /\ exitCode = 0

FormatStep ==
    /\ pc = "fmt"
    /\ fmtOut' = formatDuration(fmtIn)
    /\ pc' = "fmtDone"
    /\ UNCHANGED <<args, pools, idx, hasDraining, out, exitCode, fmtIn>>

FmtNext == FormatStep

SpecFmt == FmtInit /\ [][FmtNext]_vars

(* ------------------------------ claims -------------------------------- *)

\* The spec's notion of a draining pool: a decommission record, a non-zero
\* StartTime, no terminal flag.
Draining(p) ==
    IF p.Decommission = Nil THEN FALSE
    ELSE /\ p.Decommission.StartTime # ZeroTime
         /\ ~p.Decommission.Complete
         /\ ~p.Decommission.Failed
         /\ ~p.Decommission.Canceled

\* The spec's derived metrics of a pool that has a decommission record.
InitialUsed(p) == p.Decommission.TotalSize - p.Decommission.StartSize

BytesFreed(p) == p.Decommission.CurrentSize - p.Decommission.StartSize

UsedNow(p) == p.Decommission.TotalSize - p.Decommission.CurrentSize

ElapsedTicks(p) == Now - p.Decommission.StartTime

\* The pools the loop has gone through, and the draining ones among them.
Processed == 1..idx

ProcessedDraining == {i \in Processed : Draining(pools[i])}

\* What was printed for pool number i of the list, and the kinds of lines.
LinesOf(i) == SelectSeq(out, LAMBDA l : l.pool = i)

KindSeq(i) == [k \in 1..Len(LinesOf(i)) |-> LinesOf(i)[k].kind]

KindSet(i) == {LinesOf(i)[k].kind : k \in 1..Len(LinesOf(i))}

StartingView(i) ==
    /\ "Starting" \in KindSet(i)
    /\ KindSet(i) \cap {"Progress", "Usage", "Speed", "ETA"} = {}

InProgressView(i) ==
    /\ {"Progress", "Usage", "Speed"} \subseteq KindSet(i)
    /\ "Starting" \notin KindSet(i)

NoSignal(p) ==
    BytesFreed(p) <= 0 \/ InitialUsed(p) <= 0 \/ ElapsedTicks(p) <= 10 * Second

\* C1: a draining pool is reported as Starting (the placeholder, and no
\* Progress, Current usage, Speed or ETA line) exactly when BytesFreed <= 0 or
\* InitialUsed <= 0 or ElapsedSeconds <= 10, and as InProgress otherwise.
C1_StartingIffNoSignal ==
    \A i \in ProcessedDraining :
        /\ StartingView(i) <=> NoSignal(pools[i])
        /\ InProgressView(i) <=> ~NoSignal(pools[i])

\* C1's case: one pool held back by the 10 seconds alone, its counters fine,
\* and one held back by BytesFreed = 0 alone, 90 seconds in.
C1_Witness ==
    \E i, j \in ProcessedDraining :
        /\ ElapsedTicks(pools[i]) <= 10 * Second
        /\ BytesFreed(pools[i]) > 0 /\ InitialUsed(pools[i]) > 0
        /\ StartingView(i)
        /\ BytesFreed(pools[j]) = 0 /\ ElapsedTicks(pools[j]) > 10 * Second
        /\ StartingView(j)

\* C2: a pool with no decommission record, a zero StartTime or a terminal
\* flag prints no line at all, whatever its other fields, and does not count
\* as a draining pool.
C2_NotDrainingIsSilent ==
    /\ \A i \in Processed : ~Draining(pools[i]) => LinesOf(i) = << >>
    /\ hasDraining => ProcessedDraining # {}

\* C2's case: a canceled pool whose counters and age would make it
\* InProgress has been gone through and printed nothing.
C2_Witness ==
    \E i \in Processed :
        /\ pools[i].Decommission # Nil
        /\ pools[i].Decommission.Canceled
        /\ pools[i].Decommission.StartTime # ZeroTime
        /\ ~NoSignal(pools[i])
        /\ LinesOf(i) = << >>
        /\ ~hasDraining

FractionInside(p) ==
    InitialUsed(p) > 0 /\ 0 < BytesFreed(p) /\ BytesFreed(p) < InitialUsed(p)

\* C3: an InProgress pool has an ETA line exactly when 0 < ProgressFraction
\* < 1; with the fraction at or over 1 the Progress, Current usage and Speed
\* lines come without an ETA line. No other pool has an ETA line.
C3_EtaIffFractionInside ==
    \A i \in Processed :
        IF Draining(pools[i]) /\ InProgressView(i)
        THEN "ETA" \in KindSet(i) <=> FractionInside(pools[i])
        ELSE "ETA" \notin KindSet(i)

\* C3's case: an InProgress pool whose freed bytes exceed the initial used
\* bytes (CurrentSize > TotalSize), reported without an ETA line.
C3_Witness ==
    \E i \in ProcessedDraining :
        /\ InProgressView(i)
        /\ BytesFreed(pools[i]) > InitialUsed(pools[i])
        /\ "ETA" \notin KindSet(i)

\* C4: whenever an ETA is reported, its timestamp is strictly after now: the
\* remaining duration is strictly positive, never zero or negative.
C4_EtaStrictlyAfterNow ==
    \A k \in 1..Len(out) :
        out[k].kind = "ETA" => out[k].val > 0 /\ out[k].at > Now

\* C5: a draining pool with a negative derived value (InitialUsed, BytesFreed,
\* UsedNow, ElapsedSeconds) is degraded to Starting, and the other pools of
\* the report are still reported: every draining pool has its block.
C5_NonsensicalDegradesToStarting ==
    /\ \A i \in ProcessedDraining :
           (\/ InitialUsed(pools[i]) < 0
            \/ BytesFreed(pools[i]) < 0
            \/ UsedNow(pools[i]) < 0
            \/ ElapsedTicks(pools[i]) < 0) => StartingView(i)
    /\ \A i \in ProcessedDraining : LinesOf(i) # << >>

\* C6: no division has a divisor <= 0: InitialUsed under the progress
\* fraction, the elapsed time under the speed, TotalSize under the usage
\* percentage and the progress fraction under the ETA projection are all
\* strictly positive where they are used.
C6_DivisorsPositive ==
    \A k \in 1..Len(out) :
        /\ out[k].kind \in {"Progress", "Usage", "Speed"} => out[k].den > 0
        /\ out[k].kind = "ETA" => out[k].num > 0 /\ out[k].den > 0

NoPoolsPrinted == \E k \in 1..Len(out) : out[k].kind = "NoPools"

\* C7: "No pools are currently being decommissioned." is printed if and only
\* if no pool of the list is draining; when printed it is the only output.
C7_NoPoolsIffNoneDraining ==
    /\ pc = "done" =>
           (NoPoolsPrinted <=> \A i \in 1..Len(pools) : ~Draining(pools[i]))
    /\ NoPoolsPrinted => pc = "done" /\ Len(out) = 1

\* C7's case: a list that is not empty and holds no draining pool, and the
\* message as the whole output.
C7_Witness ==
    /\ pc = "done"
    /\ Len(pools) >= 1
    /\ \E i \in 1..Len(pools) :
           pools[i].Decommission # Nil /\ pools[i].Decommission.Complete
    /\ \A i \in 1..Len(pools) : ~Draining(pools[i])
    /\ Len(out) = 1 /\ NoPoolsPrinted

BlockShapes ==
    { <<"Header", "Started", "Starting", "Blank">>,
      <<"Header", "Started", "Progress", "Usage", "Speed", "Blank">>,
      <<"Header", "Started", "Progress", "Usage", "Speed", "ETA", "Blank">> }

\* C8: a draining pool's lines are, in this order and once each, the header
\* "Pool #<ID+1>: <CommandLine>", Started, then the placeholder or Progress,
\* Current usage, Speed and (when there is one) ETA, then a blank line; the
\* blocks do not interleave and follow the order of the list.
C8_BlockOrder ==
    /\ \A i \in ProcessedDraining :
           /\ KindSeq(i) \in BlockShapes
           /\ LinesOf(i)[1].val = pools[i].ID + 1
           /\ LinesOf(i)[1].text = pools[i].CmdLine
    /\ \A k, m \in 1..Len(out) :
           (k < m /\ out[k].kind # "NoPools" /\ out[m].kind # "NoPools")
               => out[k].pool <= out[m].pool

\* C8's case: a finished report of two draining pools, the first of the list
\* (whose ID is the higher one) starting, the second with an ETA.
C8_Witness ==
    /\ pc = "done"
    /\ Len(pools) = 2
    /\ ProcessedDraining = {1, 2}
    /\ pools[1].ID = 1 /\ pools[2].ID = 0
    /\ StartingView(1)
    /\ "ETA" \in KindSet(2)
    /\ out[1].kind = "Header" /\ out[1].val = 2

\* The expected rendering: days, hours and minutes of the duration, each
\* printed only when it is not zero.
ExpectedParts(d) ==
    LET days == d \div (86400 * Second)
        hours == (d % (86400 * Second)) \div (3600 * Second)
        mins == (d % (3600 * Second)) \div (60 * Second)
    IN  << <<days, "d">>, <<hours, "h">>, <<mins, "m">> >>

RECURSIVE Render(_)
Render(ps) ==
    IF ps = << >> THEN ""
    ELSE LET rest == Render(Tail(ps))
             this == ToString(ps[1][1]) \o ps[1][2]
         IN  IF ps[1][1] = 0 THEN rest
             ELSE IF rest = "" THEN this
             ELSE this \o " " \o rest

\* C9: formatDuration(d), d >= 0, is the space-joined "<days>d", "<hours>h",
\* "<minutes>m" with every zero component left out, and "< 1m" exactly when d
\* is under one minute: 0 s gives "< 1m", 125 min "2h 5m", 90000 s "1d 1h".
C9_FormatDuration ==
    pc = "fmtDone" =>
        /\ fmtOut = (IF fmtIn < 60 * Second THEN "< 1m"
                     ELSE Render(ExpectedParts(fmtIn)))
        /\ fmtOut = "< 1m" <=> fmtIn < 60 * Second
        /\ fmtIn = 0 => fmtOut = "< 1m"
        /\ fmtIn = 125 * 60 * Second => fmtOut = "2h 5m"
        /\ fmtIn = 90000 * Second => fmtOut = "1d 1h"

\* C9's case: 90000 seconds have been formatted, as "1d 1h".
C9_Witness == pc = "fmtDone" /\ fmtIn = 90000 * Second /\ fmtOut = "1d 1h"

\* C10: with -watch the tool keeps polling: once a report is out another
\* status query follows, so the run does not end by itself.
C10_WatchKeepsPolling == args.watch => pc \notin {"exit", "done"}

=============================================================================
